---------------------------- MODULE Spec2Model ----------------------------
(***************************************************************************)
(* alloc-compose: the FallbackAlloc ("or") combinator over two inner       *)
(* allocators and the Proxy (callback) combinator over one.                *)
(*                                                                         *)
(* The inner allocators are fixed-size bump regions (Region), each with    *)
(* its own byte buffer.  Layouts carry a size only (alignment 1).          *)
(* Addresses are absolute: a region covers base .. base + cap - 1.         *)
(***************************************************************************)
EXTENDS Integers, Sequences, FiniteSets

\* ------------------------------------------------------------------ bounds
PrimaryCap == 3
FallbackCap == 3
ProxyCap == 3
MaxHeld == 2
MaxCalls == 4

\* the largest request: one byte more than any inner allocator can serve
MaxSize == FallbackCap + 1

Sizes == 1..MaxSize
Bytes == 0..1
Inits == {"Uninitialized", "Zeroed"}
Placements == {"InPlace", "MayMove"}

\* ------------------------------------------------------- results and calls
\* Result<MemoryBlock, AllocErr>
Err == [ok |-> FALSE, ptr |-> 0, size |-> 0]
Ok(p, s) == [ok |-> TRUE, ptr |-> p, size |-> s]

\* one call of an inner allocator made by a combinator, with its outcome
Call(f, b) == [fn |-> f, ok |-> b]

\* --------------------------------------------------------- leaf allocator
\* Region: a bump allocator over a borrowed buffer.
\* Region::new(&mut data): the buffer holds whatever the caller left in it
Region_new(b, c, byte) == [base |-> b, cap |-> c, used |-> 0, data |-> [i \in 0..(c - 1) |-> byte]]

Region_is_last_block(a, ptr, size) == ptr + size = a.base + a.used

Region_owns(a, ptr, size) == a.base <= ptr /\ ptr + size <= a.base + a.cap

Region_capacity(a) == a.cap

Region_capacity_left(a) == a.cap - a.used

Region_is_empty(a) == a.used = 0

Region_is_full(a) == a.used = a.cap

\* zero the bytes at offsets [from, to) of the buffer
ZeroFill(data, from, to) == [i \in DOMAIN data |-> IF from <= i /\ i < to THEN 0 ELSE data[i]]

InitBytes(a, off, size, init) ==
    IF init = "Zeroed" THEN [a EXCEPT !.data = ZeroFill(a.data, off, off + size)] ELSE a

Region_alloc(a, size, init) ==
    IF a.used + size > a.cap
    THEN [a |-> a, res |-> Err]
    ELSE [a |-> InitBytes([a EXCEPT !.used = a.used + size], a.used, size, init),
          res |-> Ok(a.base + a.used, size)]

Region_dealloc(a, ptr, size) ==
    IF Region_is_last_block(a, ptr, size) THEN [a EXCEPT !.used = ptr - a.base] ELSE a

\* bytes [ptr, ptr + n) read from region a
ReadRegion(a, ptr, n) == [i \in 1..n |-> a.data[ptr - a.base + i - 1]]

\* ptr::copy_nonoverlapping of n bytes into region a at address dst
CopyInto(a, dst, bytes) ==
    [a EXCEPT !.data = [i \in DOMAIN a.data |->
        IF dst - a.base <= i /\ i < dst - a.base + Len(bytes)
        THEN bytes[i - (dst - a.base) + 1] ELSE a.data[i]]]

Region_grow(a, ptr, size, new_size, placement, init) ==
    IF Region_is_last_block(a, ptr, size) /\ (ptr - a.base) + new_size <= a.cap
    THEN [a |-> InitBytes([a EXCEPT !.used = (ptr - a.base) + new_size],
                          (ptr - a.base) + size, new_size - size, init),
          res |-> Ok(ptr, new_size)]
    ELSE IF placement = "MayMove"
    THEN LET r == Region_alloc(a, new_size, init) IN
         IF r.res.ok
         THEN [a |-> Region_dealloc(CopyInto(r.a, r.res.ptr, ReadRegion(a, ptr, size)), ptr, size),
               res |-> r.res]
         ELSE [a |-> r.a, res |-> Err]
    ELSE [a |-> a, res |-> Err]

Region_shrink(a, ptr, size, new_size, placement) ==
    IF Region_is_last_block(a, ptr, size)
    THEN [a |-> [a EXCEPT !.used = (ptr - a.base) + new_size], res |-> Ok(ptr, new_size)]
    ELSE [a |-> a, res |-> Ok(ptr, new_size)]

Region_alloc_all(a, size, init) ==
    IF Region_capacity_left(a) < size
    THEN [a |-> a, res |-> Err]
    ELSE [a |-> InitBytes([a EXCEPT !.used = a.cap], a.used, a.cap - a.used, init),
          res |-> Ok(a.base + a.used, a.cap - a.used)]

Region_dealloc_all(a) == [a EXCEPT !.used = 0]

\* ------------------------------------------------- cross-allocator growth
\* crate::grow(a1, a2, ...): move a block of a1 into a fresh block of a2.
\* Its one caller passes a1 = primary and a2 = fallback, which name the calls.
grow(a1, a2, ptr, size, new_size, placement, init) ==
    IF placement = "MayMove"
    THEN LET r == Region_alloc(a2, new_size, init) IN
         IF r.res.ok
         THEN [a1 |-> Region_dealloc(a1, ptr, size),
               a2 |-> CopyInto(r.a, r.res.ptr, ReadRegion(a1, ptr, size)),
               res |-> r.res,
               calls |-> <<Call("fallback.alloc", TRUE), Call("copy", TRUE),
                           Call("primary.dealloc", TRUE)>>]
         ELSE [a1 |-> a1, a2 |-> r.a, res |-> Err,
               calls |-> <<Call("fallback.alloc", FALSE)>>]
    ELSE [a1 |-> a1, a2 |-> a2, res |-> Err, calls |-> <<>>]

\* ---------------------------------------------------------- FallbackAlloc
\* Each operation maps the two inner allocators to their new states, the
\* result, the inner allocator the result comes from, and the inner calls.
Out(p, f, r, who, cs) == [primary |-> p, fallback |-> f, res |-> r, from |-> who, calls |-> cs]

\* mutant: a failure of primary is returned without asking fallback
FallbackAlloc_alloc_NoFallback(p, f, size, init) ==
    LET r1 == Region_alloc(p, size, init) IN
    Out(r1.a, f, r1.res, "primary", <<Call("primary.alloc", r1.res.ok)>>)

\* mutant: fallback is asked first, primary only when fallback fails
FallbackAlloc_alloc_FallbackFirst(p, f, size, init) ==
    LET r2 == Region_alloc(f, size, init) IN
    IF r2.res.ok
    THEN Out(p, r2.a, r2.res, "fallback", <<Call("fallback.alloc", TRUE)>>)
    ELSE LET r1 == Region_alloc(p, size, init) IN
         Out(r1.a, r2.a, r1.res, "primary",
             <<Call("fallback.alloc", FALSE), Call("primary.alloc", r1.res.ok)>>)

FallbackAlloc_alloc(p, f, size, init) ==
    LET r1 == Region_alloc(p, size, init) IN
    IF r1.res.ok
    THEN Out(r1.a, f, r1.res, "primary", <<Call("primary.alloc", TRUE)>>)
    ELSE LET r2 == Region_alloc(f, size, init) IN
         Out(r1.a, r2.a, r2.res, "fallback",
             <<Call("primary.alloc", FALSE), Call("fallback.alloc", r2.res.ok)>>)

\* mutant: the ownership test is inverted
FallbackAlloc_dealloc_Inverted(p, f, ptr, size) ==
    IF ~Region_owns(p, ptr, size)
    THEN Out(Region_dealloc(p, ptr, size), f, Err, "primary",
             <<Call("primary.owns", FALSE), Call("primary.dealloc", TRUE)>>)
    ELSE Out(p, Region_dealloc(f, ptr, size), Err, "fallback",
             <<Call("primary.owns", TRUE), Call("fallback.dealloc", TRUE)>>)

\* mutant: the block is handed to both inner allocators
FallbackAlloc_dealloc_Both(p, f, ptr, size) ==
    Out(Region_dealloc(p, ptr, size), Region_dealloc(f, ptr, size), Err, "primary",
        <<Call("primary.owns", Region_owns(p, ptr, size)), Call("primary.dealloc", TRUE),
          Call("fallback.dealloc", TRUE)>>)

FallbackAlloc_dealloc(p, f, ptr, size) ==
    IF Region_owns(p, ptr, size)
    THEN Out(Region_dealloc(p, ptr, size), f, Err, "primary",
             <<Call("primary.owns", TRUE), Call("primary.dealloc", TRUE)>>)
    ELSE Out(p, Region_dealloc(f, ptr, size), Err, "fallback",
             <<Call("primary.owns", FALSE), Call("fallback.dealloc", TRUE)>>)

\* mutant: a failure of primary.grow is returned without migrating
FallbackAlloc_grow_NoMigration(p, f, ptr, size, new_size, placement, init) ==
    IF Region_owns(p, ptr, size)
    THEN LET r1 == Region_grow(p, ptr, size, new_size, placement, init) IN
         Out(r1.a, f, r1.res, "primary",
             <<Call("primary.owns", TRUE), Call("primary.grow", r1.res.ok)>>)
    ELSE LET r2 == Region_grow(f, ptr, size, new_size, placement, init) IN
         Out(p, r2.a, r2.res, "fallback",
             <<Call("primary.owns", FALSE), Call("fallback.grow", r2.res.ok)>>)

\* mutant: the migration is asked for with MayMove whatever the caller's placement
FallbackAlloc_grow_IgnoresPlacement(p, f, ptr, size, new_size, placement, init) ==
    IF Region_owns(p, ptr, size)
    THEN LET r1 == Region_grow(p, ptr, size, new_size, placement, init) IN
         IF r1.res.ok
         THEN Out(r1.a, f, r1.res, "primary",
                  <<Call("primary.owns", TRUE), Call("primary.grow", TRUE)>>)
         ELSE LET g == grow(r1.a, f, ptr, size, new_size, "MayMove", init) IN
              Out(g.a1, g.a2, g.res, "fallback",
                  <<Call("primary.owns", TRUE), Call("primary.grow", FALSE)>> \o g.calls)
    ELSE LET r2 == Region_grow(f, ptr, size, new_size, placement, init) IN
         Out(p, r2.a, r2.res, "fallback",
             <<Call("primary.owns", FALSE), Call("fallback.grow", r2.res.ok)>>)

\* mutant: the migration runs but the error of primary.grow is what is returned
FallbackAlloc_grow_DropsResult(p, f, ptr, size, new_size, placement, init) ==
    IF Region_owns(p, ptr, size)
    THEN LET r1 == Region_grow(p, ptr, size, new_size, placement, init) IN
         IF r1.res.ok
         THEN Out(r1.a, f, r1.res, "primary",
                  <<Call("primary.owns", TRUE), Call("primary.grow", TRUE)>>)
         ELSE LET g == grow(r1.a, f, ptr, size, new_size, placement, init) IN
              Out(g.a1, g.a2, Err, "fallback",
                  <<Call("primary.owns", TRUE), Call("primary.grow", FALSE)>> \o g.calls)
    ELSE LET r2 == Region_grow(f, ptr, size, new_size, placement, init) IN
         Out(p, r2.a, r2.res, "fallback",
             <<Call("primary.owns", FALSE), Call("fallback.grow", r2.res.ok)>>)

\* mutant: a primary-owned block is moved to fallback without asking primary to grow it
FallbackAlloc_grow_SkipsPrimary(p, f, ptr, size, new_size, placement, init) ==
    IF Region_owns(p, ptr, size)
    THEN LET g == grow(p, f, ptr, size, new_size, placement, init) IN
         Out(g.a1, g.a2, g.res, "fallback", <<Call("primary.owns", TRUE)>> \o g.calls)
    ELSE LET r2 == Region_grow(f, ptr, size, new_size, placement, init) IN
         Out(p, r2.a, r2.res, "fallback",
             <<Call("primary.owns", FALSE), Call("fallback.grow", r2.res.ok)>>)

\* mutant: the block is moved to fallback even though primary.grow succeeded
FallbackAlloc_grow_MigratesAfterSuccess(p, f, ptr, size, new_size, placement, init) ==
    IF Region_owns(p, ptr, size)
    THEN LET r1 == Region_grow(p, ptr, size, new_size, placement, init)
             g == grow(r1.a, f, ptr, size, new_size, placement, init) IN
         Out(g.a1, g.a2, g.res, "fallback",
             <<Call("primary.owns", TRUE), Call("primary.grow", r1.res.ok)>> \o g.calls)
    ELSE LET r2 == Region_grow(f, ptr, size, new_size, placement, init) IN
         Out(p, r2.a, r2.res, "fallback",
             <<Call("primary.owns", FALSE), Call("fallback.grow", r2.res.ok)>>)

\* mutant: a fallback-owned block that fallback cannot grow is moved to primary
FallbackAlloc_grow_RetriesPrimary(p, f, ptr, size, new_size, placement, init) ==
    IF Region_owns(p, ptr, size)
    THEN LET r1 == Region_grow(p, ptr, size, new_size, placement, init) IN
         IF r1.res.ok
         THEN Out(r1.a, f, r1.res, "primary",
                  <<Call("primary.owns", TRUE), Call("primary.grow", TRUE)>>)
         ELSE LET g == grow(r1.a, f, ptr, size, new_size, placement, init) IN
              Out(g.a1, g.a2, g.res, "fallback",
                  <<Call("primary.owns", TRUE), Call("primary.grow", FALSE)>> \o g.calls)
    ELSE LET r2 == Region_grow(f, ptr, size, new_size, placement, init) IN
         IF r2.res.ok
         THEN Out(p, r2.a, r2.res, "fallback",
                  <<Call("primary.owns", FALSE), Call("fallback.grow", TRUE)>>)
         ELSE LET r3 == Region_alloc(p, new_size, init) IN
              IF r3.res.ok
              THEN Out(CopyInto(r3.a, r3.res.ptr, ReadRegion(f, ptr, size)),
                       Region_dealloc(r2.a, ptr, size), r3.res, "primary",
                       <<Call("primary.owns", FALSE), Call("fallback.grow", FALSE),
                         Call("primary.alloc", TRUE), Call("copy", TRUE),
                         Call("fallback.dealloc", TRUE)>>)
              ELSE Out(r3.a, r2.a, Err, "fallback",
                       <<Call("primary.owns", FALSE), Call("fallback.grow", FALSE),
                         Call("primary.alloc", FALSE)>>)

FallbackAlloc_grow(p, f, ptr, size, new_size, placement, init) ==
    IF Region_owns(p, ptr, size)
    THEN LET r1 == Region_grow(p, ptr, size, new_size, placement, init) IN
         IF r1.res.ok
         THEN Out(r1.a, f, r1.res, "primary",
                  <<Call("primary.owns", TRUE), Call("primary.grow", TRUE)>>)
         ELSE LET g == grow(r1.a, f, ptr, size, new_size, placement, init) IN
              Out(g.a1, g.a2, g.res, "fallback",
                  <<Call("primary.owns", TRUE), Call("primary.grow", FALSE)>> \o g.calls)
    ELSE LET r2 == Region_grow(f, ptr, size, new_size, placement, init) IN
         Out(p, r2.a, r2.res, "fallback",
             <<Call("primary.owns", FALSE), Call("fallback.grow", r2.res.ok)>>)

\* mutant: shrink is sent to primary without the ownership test
FallbackAlloc_shrink_PrimaryOnly(p, f, ptr, size, new_size, placement) ==
    LET r1 == Region_shrink(p, ptr, size, new_size, placement) IN
    Out(r1.a, f, r1.res, "primary",
        <<Call("primary.owns", TRUE), Call("primary.shrink", r1.res.ok)>>)

\* mutant: shrink goes to the allocator that does not own the block
FallbackAlloc_shrink_Inverted(p, f, ptr, size, new_size, placement) ==
    IF ~Region_owns(p, ptr, size)
    THEN LET r1 == Region_shrink(p, ptr, size, new_size, placement) IN
         Out(r1.a, f, r1.res, "primary",
             <<Call("primary.owns", FALSE), Call("primary.shrink", r1.res.ok)>>)
    ELSE LET r2 == Region_shrink(f, ptr, size, new_size, placement) IN
         Out(p, r2.a, r2.res, "fallback",
             <<Call("primary.owns", TRUE), Call("fallback.shrink", r2.res.ok)>>)

FallbackAlloc_shrink(p, f, ptr, size, new_size, placement) ==
    IF Region_owns(p, ptr, size)
    THEN LET r1 == Region_shrink(p, ptr, size, new_size, placement) IN
         Out(r1.a, f, r1.res, "primary",
             <<Call("primary.owns", TRUE), Call("primary.shrink", r1.res.ok)>>)
    ELSE LET r2 == Region_shrink(f, ptr, size, new_size, placement) IN
         Out(p, r2.a, r2.res, "fallback",
             <<Call("primary.owns", FALSE), Call("fallback.shrink", r2.res.ok)>>)

\* mutant: only primary is asked
FallbackAlloc_owns_PrimaryOnly(p, f, ptr, size) == Region_owns(p, ptr, size)

\* mutant: both inner allocators must own the block
FallbackAlloc_owns_Both(p, f, ptr, size) == Region_owns(p, ptr, size) /\ Region_owns(f, ptr, size)

FallbackAlloc_owns(p, f, ptr, size) == Region_owns(p, ptr, size) \/ Region_owns(f, ptr, size)

\* ------------------------------------------------------------------ Proxy
\* The operations a Proxy wraps in hooks.
Kinds == {"alloc", "dealloc", "grow", "shrink", "alloc_all", "dealloc_all", "owns"}

\* the value of a call that returns () and of one that returns a bool
Unit == [ok |-> TRUE, ptr |-> 0, size |-> 0]
Bool(b) == [ok |-> b, ptr |-> 0, size |-> 0]

\* CallbackRef: a sink that counts the hooks per operation and keeps the
\* result the latest after-hook was given
NewCallbacks == [before |-> [k \in Kinds |-> 0], after |-> [k \in Kinds |-> 0], seen |-> Unit]

before(c, k) == [c EXCEPT !.before[k] = @ + 1]

after(c, k, r) == [c EXCEPT !.after[k] = @ + 1, !.seen = r]

\* one event of a call on the Proxy, in program order
Ev(w, k) == [what |-> w, op |-> k]

Wrapped(k) == <<Ev("before", k), Ev("inner", k), Ev("after", k)>>

POut(a, c, r, es) == [alloc |-> a, callbacks |-> c, res |-> r, events |-> es]

\* mutant: the after-hook is skipped when the inner allocator fails
Proxy_alloc_SkipsAfterOnErr(a, c, size, init) ==
    LET r == Region_alloc(a, size, init) IN
    IF r.res.ok
    THEN POut(r.a, after(before(c, "alloc"), "alloc", r.res), r.res, Wrapped("alloc"))
    ELSE POut(r.a, before(c, "alloc"), r.res, <<Ev("before", "alloc"), Ev("inner", "alloc")>>)

Proxy_alloc(a, c, size, init) ==
    LET r == Region_alloc(a, size, init) IN
    POut(r.a, after(before(c, "alloc"), "alloc", r.res), r.res, Wrapped("alloc"))

Proxy_dealloc(a, c, ptr, size) ==
    POut(Region_dealloc(a, ptr, size), after(before(c, "dealloc"), "dealloc", Unit), Unit,
         Wrapped("dealloc"))

Proxy_grow(a, c, ptr, size, new_size, placement, init) ==
    LET r == Region_grow(a, ptr, size, new_size, placement, init) IN
    POut(r.a, after(before(c, "grow"), "grow", r.res), r.res, Wrapped("grow"))

Proxy_shrink(a, c, ptr, size, new_size, placement) ==
    LET r == Region_shrink(a, ptr, size, new_size, placement) IN
    POut(r.a, after(before(c, "shrink"), "shrink", r.res), r.res, Wrapped("shrink"))

\* mutant: alloc_all forwards to the inner allocator's alloc
Proxy_alloc_all_CallsAlloc(a, c, size, init) ==
    LET r == Region_alloc(a, size, init) IN
    POut(r.a, after(before(c, "alloc_all"), "alloc_all", r.res), r.res, Wrapped("alloc_all"))

Proxy_alloc_all(a, c, size, init) ==
    LET r == Region_alloc_all(a, size, init) IN
    POut(r.a, after(before(c, "alloc_all"), "alloc_all", r.res), r.res, Wrapped("alloc_all"))

Proxy_dealloc_all(a, c) ==
    POut(Region_dealloc_all(a), after(before(c, "dealloc_all"), "dealloc_all", Unit), Unit,
         Wrapped("dealloc_all"))

Proxy_owns(a, c, ptr, size) ==
    LET owns == Region_owns(a, ptr, size) IN
    POut(a, after(before(c, "owns"), "owns", Bool(owns)), Bool(owns), Wrapped("owns"))

\* The queries take the wrapped allocator alone: no callback is in reach.
Proxy_capacity(a) == Region_capacity(a)

Proxy_capacity_left(a) == Region_capacity(a)

Proxy_is_empty(a) == Region_is_empty(a)

Proxy_is_full(a) == Region_is_full(a)

\* ------------------------------------------------------------------ state
VARIABLES
    primary,    \* FallbackAlloc.primary
    fallback,   \* FallbackAlloc.fallback
    held,       \* the blocks the caller holds, each with the allocator that serves it
    last,       \* the most recent call on the FallbackAlloc: arguments, result, inner calls
    steps,      \* the number of steps the caller has made
    live,       \* the blocks each inner allocator has handed out and not taken back
    pxAlloc,    \* Proxy.alloc
    pxCallbacks,\* Proxy.callbacks
    pxRef,      \* the wrapped allocator alone, given the same calls
    pxHeld,     \* the blocks the caller of the Proxy holds
    pxCalls,    \* how often the caller invoked each operation of the Proxy
    pxLast      \* the most recent call on the Proxy

fbVars == <<primary, fallback, held, last, steps, live>>

pxVars == <<pxAlloc, pxCallbacks, pxRef, pxHeld, pxCalls, pxLast>>

vars == <<fbVars, pxVars>>

NoCall == [op |-> "none", ptr |-> 0, size |-> 0, newSize |-> 0, placement |-> "MayMove",
           init |-> "Uninitialized", owner |-> "none", res |-> Err, from |-> "none",
           calls |-> <<>>, roundTrip |-> FALSE]

\* bytes [ptr, ptr + n) as the caller reads them
ReadBytes(p, f, ptr, n) ==
    IF Region_owns(p, ptr, n) THEN ReadRegion(p, ptr, n) ELSE ReadRegion(f, ptr, n)

Block(ptr, size, owner) == [ptr |-> ptr, size |-> size, owner |-> owner]

\* the inner allocator a call goes to; owns and copy change no block
InnerOf(fn) ==
    IF fn \in {"primary.alloc", "primary.dealloc", "primary.grow", "primary.shrink"}
    THEN "primary"
    ELSE IF fn \in {"fallback.alloc", "fallback.dealloc", "fallback.grow", "fallback.shrink"}
         THEN "fallback"
         ELSE "none"

\* a block as an inner allocator knows it
Mem(ptr, size) == [ptr |-> ptr, size |-> size]

NoneLive == [primary |-> {}, fallback |-> {}, misuse |-> FALSE]

\* One inner call c seen from the inner allocator: alloc hands out the block
\* new, dealloc takes back the block old, a successful grow or shrink
\* replaces old by new.  misuse: the inner allocator was given a block it
\* does not have live, or handed out a block it has live.
Track(l, c, old, new) ==
    LET w == InnerOf(c.fn) IN
    IF w = "none" THEN l
    ELSE IF c.fn \in {"primary.alloc", "fallback.alloc"}
         THEN IF c.ok THEN [l EXCEPT ![w] = @ \cup {new}, !.misuse = @ \/ new \in l[w]] ELSE l
         ELSE IF c.fn \in {"primary.dealloc", "fallback.dealloc"}
              THEN [l EXCEPT ![w] = @ \ {old}, !.misuse = @ \/ old \notin l[w]]
              ELSE IF c.ok
                   THEN [l EXCEPT ![w] = (@ \ {old}) \cup {new}, !.misuse = @ \/ old \notin l[w]]
                   ELSE [l EXCEPT !.misuse = @ \/ old \notin l[w]]

RECURSIVE TrackAll(_, _, _, _)
TrackAll(l, cs, old, new) ==
    IF cs = <<>> THEN l ELSE TrackAll(Track(l, Head(cs), old, new), Tail(cs), old, new)

\* the live blocks after a call on the FallbackAlloc with outcome o
Tracked(o, ptr, size) == TrackAll(live, o.calls, Mem(ptr, size), Mem(o.res.ptr, o.res.size))

NoPxCall == [op |-> "none", res |-> Unit, refRes |-> Unit, events |-> <<>>]

\* primary is a Region over a zeroed array; what fallback hands out is
\* memory with arbitrary contents
InitFallback(bytes) ==
    /\ primary = Region_new(0, PrimaryCap, 0)
    /\ \E b \in bytes : fallback = Region_new(PrimaryCap, FallbackCap, b)
    /\ held = {}
    /\ last = NoCall
    /\ steps = 0
    /\ live = NoneLive

InitProxy(bytes) ==
    /\ \E b \in bytes : pxAlloc = Region_new(0, ProxyCap, b)
    /\ pxRef = pxAlloc
    /\ pxCallbacks = NewCallbacks
    /\ pxHeld = {}
    /\ pxCalls = [k \in Kinds |-> 0]
    /\ pxLast = NoPxCall

Init == InitFallback(Bytes) /\ InitProxy({0})

Record(op, h, new_size, placement, init, o) ==
    [NoCall EXCEPT !.op = op, !.ptr = h.ptr, !.size = h.size, !.newSize = new_size,
                   !.placement = placement, !.init = init, !.owner = h.owner,
                   !.res = o.res, !.from = o.from, !.calls = o.calls]

Alloc(size, init) ==
    /\ Cardinality(held) < MaxHeld
    /\ LET o == FallbackAlloc_alloc(primary, fallback, size, init) IN
       /\ primary' = o.primary
       /\ fallback' = o.fallback
       /\ held' = IF o.res.ok THEN held \cup {Block(o.res.ptr, o.res.size, o.from)} ELSE held
       /\ last' = Record("alloc", Block(0, size, "none"), size, "MayMove", init, o)
       /\ live' = Tracked(o, 0, size)

Dealloc(h) ==
    LET o == FallbackAlloc_dealloc(primary, fallback, h.ptr, h.size) IN
    /\ primary' = o.primary
    /\ fallback' = o.fallback
    /\ held' = held \ {h}
    /\ live' = Tracked(o, h.ptr, h.size)
    /\ last' = [Record("dealloc", h, h.size, "MayMove", "Uninitialized", o)
                  EXCEPT !.roundTrip = (last.op = "alloc" /\ last.res.ok
                                        /\ last.res.ptr = h.ptr /\ last.res.size = h.size)]

Grow(h, new_size, placement, init) ==
    /\ new_size >= h.size
    /\ LET o == FallbackAlloc_grow(primary, fallback, h.ptr, h.size, new_size, placement, init) IN
       /\ primary' = o.primary
       /\ fallback' = o.fallback
       /\ held' = IF o.res.ok
                  THEN (held \ {h}) \cup {Block(o.res.ptr, o.res.size, o.from)}
                  ELSE held
       /\ last' = Record("grow", h, new_size, placement, init, o)
       /\ live' = Tracked(o, h.ptr, h.size)

Shrink(h, new_size, placement) ==
    /\ new_size <= h.size
    /\ LET o == FallbackAlloc_shrink(primary, fallback, h.ptr, h.size, new_size, placement) IN
       /\ primary' = o.primary
       /\ fallback' = o.fallback
       /\ held' = IF o.res.ok
                  THEN (held \ {h}) \cup {Block(o.res.ptr, o.res.size, o.from)}
                  ELSE held
       /\ last' = Record("shrink", h, new_size, placement, "Uninitialized", o)
       /\ live' = Tracked(o, h.ptr, h.size)

\* the caller fills a block it holds with non-zero bytes
WriteRegion(a, h) == CopyInto(a, h.ptr, [i \in 1..h.size |-> 1])

Write(h) ==
    /\ primary' = IF Region_owns(primary, h.ptr, h.size) THEN WriteRegion(primary, h) ELSE primary
    /\ fallback' = IF Region_owns(primary, h.ptr, h.size) THEN fallback ELSE WriteRegion(fallback, h)
    /\ <<primary', fallback'>> # <<primary, fallback>>
    /\ held' = held
    /\ last' = [NoCall EXCEPT !.op = "write"]
    /\ live' = live

Step == steps < MaxCalls /\ steps' = steps + 1 /\ UNCHANGED pxVars

Next ==
    \/ \E size \in Sizes, init \in Inits : Step /\ Alloc(size, init)
    \/ \E h \in held : Step /\ Dealloc(h)
    \/ \E h \in held, n \in Sizes, pl \in Placements, init \in Inits : Step /\ Grow(h, n, pl, init)
    \/ \E h \in held, n \in Sizes, pl \in Placements : Step /\ Shrink(h, n, pl)
    \/ \E h \in held : Step /\ Write(h)

Spec == Init /\ [][Next]_vars

\* ------------------------------------------------------- calls on a Proxy
RECURSIVE Sum(_, _)
Sum(f, S) == IF S = {} THEN 0 ELSE LET k == CHOOSE x \in S : TRUE IN f[k] + Sum(f, S \ {k})

PxCall(k, o, ref, refRes, heldAfter) ==
    /\ Sum(pxCalls, Kinds) < MaxCalls
    /\ pxCalls' = [pxCalls EXCEPT ![k] = @ + 1]
    /\ pxAlloc' = o.alloc
    /\ pxCallbacks' = o.callbacks
    /\ pxRef' = ref
    /\ pxHeld' = heldAfter
    /\ pxLast' = [NoPxCall EXCEPT !.op = k, !.res = o.res, !.refRes = refRes, !.events = o.events]
    /\ UNCHANGED fbVars

PBlock(r) == [ptr |-> r.ptr, size |-> r.size]

PxAlloc(size, init) ==
    LET o == Proxy_alloc(pxAlloc, pxCallbacks, size, init)
        r == Region_alloc(pxRef, size, init) IN
    PxCall("alloc", o, r.a, r.res, IF o.res.ok THEN pxHeld \cup {PBlock(o.res)} ELSE pxHeld)

PxDealloc(h) ==
    PxCall("dealloc", Proxy_dealloc(pxAlloc, pxCallbacks, h.ptr, h.size),
           Region_dealloc(pxRef, h.ptr, h.size), Unit, pxHeld \ {h})

PxGrow(h, new_size, placement, init) ==
    /\ new_size >= h.size
    /\ LET o == Proxy_grow(pxAlloc, pxCallbacks, h.ptr, h.size, new_size, placement, init)
           r == Region_grow(pxRef, h.ptr, h.size, new_size, placement, init) IN
       PxCall("grow", o, r.a, r.res,
              IF o.res.ok THEN (pxHeld \ {h}) \cup {PBlock(o.res)} ELSE pxHeld)

PxShrink(h, new_size, placement) ==
    /\ new_size <= h.size
    /\ LET o == Proxy_shrink(pxAlloc, pxCallbacks, h.ptr, h.size, new_size, placement)
           r == Region_shrink(pxRef, h.ptr, h.size, new_size, placement) IN
       PxCall("shrink", o, r.a, r.res,
              IF o.res.ok THEN (pxHeld \ {h}) \cup {PBlock(o.res)} ELSE pxHeld)

PxAllocAll(size, init) ==
    LET o == Proxy_alloc_all(pxAlloc, pxCallbacks, size, init)
        r == Region_alloc_all(pxRef, size, init) IN
    PxCall("alloc_all", o, r.a, r.res, IF o.res.ok THEN pxHeld \cup {PBlock(o.res)} ELSE pxHeld)

PxDeallocAll ==
    PxCall("dealloc_all", Proxy_dealloc_all(pxAlloc, pxCallbacks), Region_dealloc_all(pxRef),
           Unit, {})

PxOwns(ptr, size) ==
    PxCall("owns", Proxy_owns(pxAlloc, pxCallbacks, ptr, size), pxRef,
           Bool(Region_owns(pxRef, ptr, size)), pxHeld)

ProxySizes == 1..(ProxyCap + 1)

NextProxy ==
    \/ \E size \in ProxySizes, init \in Inits : PxAlloc(size, init)
    \/ \E h \in pxHeld : PxDealloc(h)
    \/ \E h \in pxHeld, n \in ProxySizes, pl \in Placements, init \in Inits : PxGrow(h, n, pl, init)
    \/ \E h \in pxHeld, n \in ProxySizes, pl \in Placements : PxShrink(h, n, pl)
    \/ \E size \in ProxySizes, init \in Inits : PxAllocAll(size, init)
    \/ PxDeallocAll
    \/ \E ptr \in 0..ProxyCap, size \in ProxySizes : PxOwns(ptr, size)

InitOfProxy == InitFallback({0}) /\ InitProxy(Bytes)

SpecProxy == InitOfProxy /\ [][NextProxy]_vars

\* ---------------------------------------------------------------- claims
\* The call a step made is read from last'; the state before it is unprimed.
OwnedByPrimary == Region_owns(primary, last'.ptr, last'.size)

PrimaryGrowFails ==
    ~Region_grow(primary, last'.ptr, last'.size, last'.newSize, last'.placement, last'.init).res.ok

FallbackCanServe == Region_alloc(fallback, last'.newSize, last'.init).res.ok

OldBlock == Block(last'.ptr, last'.size, last'.owner)

NewBlock == Block(last'.res.ptr, last'.res.size, last'.from)

MigrationCalls ==
    <<Call("primary.owns", TRUE), Call("primary.grow", FALSE), Call("fallback.alloc", TRUE),
      Call("copy", TRUE), Call("primary.dealloc", TRUE)>>

\* the migration as a whole: block allocated in fallback, bytes copied, source freed
Migrated ==
    /\ last'.res.ok
    /\ last'.res.size = last'.newSize
    /\ Region_owns(fallback', last'.res.ptr, last'.res.size)
    /\ ~Region_owns(primary', last'.res.ptr, last'.res.size)
    /\ fallback'.used = fallback.used + last'.newSize
    /\ ReadRegion(fallback', last'.res.ptr, last'.size) = ReadRegion(primary, last'.ptr, last'.size)
    /\ primary' = Region_dealloc(primary, last'.ptr, last'.size)
    /\ held' = (held \ {OldBlock}) \cup {NewBlock}
    /\ last'.from = "fallback"

\* the call left everything as it was
Intact ==
    /\ ~last'.res.ok
    /\ primary' = primary
    /\ fallback' = fallback
    /\ held' = held
    /\ OldBlock \in held'

\* C1: a MayMove grow of a primary-owned block that primary cannot grow and
\* fallback can serve returns a fallback-owned block holding the old bytes,
\* with a zeroed tail under Zeroed, and leaves primary as after a dealloc of
\* the old block.
C1_GrowMigratesToFallback ==
    [][(/\ last'.op = "grow"
        /\ OwnedByPrimary
        /\ PrimaryGrowFails
        /\ last'.placement = "MayMove"
        /\ FallbackCanServe)
       => /\ Migrated
          /\ last'.init = "Zeroed" =>
                \A i \in (last'.size + 1)..last'.newSize :
                    ReadRegion(fallback', last'.res.ptr, last'.newSize)[i] = 0]_vars

C1_Witness ==
    /\ last.op = "grow"
    /\ last.calls = MigrationCalls
    /\ last.init = "Zeroed"
    /\ last.res.ok
    /\ last.newSize > last.size
    /\ primary.used = PrimaryCap - last.size
    /\ \E i \in 1..last.size : ReadRegion(fallback, last.res.ptr, last.size)[i] = 1

\* C2: an InPlace grow of a primary-owned block that primary cannot grow
\* fails, calls neither fallback.alloc nor primary.dealloc, and changes
\* nothing: the block is still held and primary-owned.
C2_InPlaceGrowFailsIntact ==
    [][(/\ last'.op = "grow"
        /\ OwnedByPrimary
        /\ PrimaryGrowFails
        /\ last'.placement = "InPlace")
       => /\ Intact
          /\ last'.calls = <<Call("primary.owns", TRUE), Call("primary.grow", FALSE)>>
          /\ Region_owns(primary', last'.ptr, last'.size)]_vars

\* after the failed InPlace grow the same grow with MayMove succeeds
C2_Witness ==
    /\ last.op = "grow"
    /\ last.placement = "InPlace"
    /\ ~last.res.ok
    /\ last.owner = "primary"
    /\ Block(last.ptr, last.size, last.owner) \in held
    /\ FallbackAlloc_grow(primary, fallback, last.ptr, last.size, last.newSize,
                          "MayMove", last.init).res.ok

\* C3: a grow of a primary-owned block that primary cannot grow either
\* migrates the block completely or fails and leaves everything intact; it
\* fails whenever fallback cannot serve the new size.
C3_MigrationAtomic ==
    [][(/\ last'.op = "grow"
        /\ OwnedByPrimary
        /\ PrimaryGrowFails)
       => /\ Migrated \/ Intact
          /\ ~FallbackCanServe => ~last'.res.ok]_vars

C3_Witness ==
    /\ last.op = "grow"
    /\ last.placement = "MayMove"
    /\ last.calls = <<Call("primary.owns", TRUE), Call("primary.grow", FALSE),
                      Call("fallback.alloc", FALSE)>>
    /\ ~last.res.ok
    /\ Block(last.ptr, last.size, "primary") \in held

\* C4: alloc returns primary's block when primary.alloc succeeds, without
\* touching fallback; otherwise it returns the result of one fallback.alloc
\* with the same arguments.
C4_AllocPrimaryThenFallback ==
    [][last'.op = "alloc"
       => LET r1 == Region_alloc(primary, last'.size, last'.init)
              r2 == Region_alloc(fallback, last'.size, last'.init) IN
          IF r1.res.ok
          THEN /\ last'.res = r1.res
               /\ last'.calls = <<Call("primary.alloc", TRUE)>>
               /\ primary' = r1.a
               /\ fallback' = fallback
          ELSE /\ last'.res = r2.res
               /\ last'.calls = <<Call("primary.alloc", FALSE), Call("fallback.alloc", r2.res.ok)>>
               /\ primary' = primary
               /\ fallback' = r2.a]_vars

\* both outcomes of the fallback path have been seen: here the failing one
C4_Witness ==
    /\ last.op = "alloc"
    /\ last.calls = <<Call("primary.alloc", FALSE), Call("fallback.alloc", FALSE)>>
    /\ ~last.res.ok
    /\ \E h \in held : h.owner = "fallback"

\* C5: dealloc goes to exactly one inner allocator, primary iff primary owns
\* the block, and that allocator is the one that serves the block.
C5_DeallocRouted ==
    [][last'.op = "dealloc"
       => IF OwnedByPrimary
          THEN /\ last'.calls = <<Call("primary.owns", TRUE), Call("primary.dealloc", TRUE)>>
               /\ last'.owner = "primary"
               /\ primary' = Region_dealloc(primary, last'.ptr, last'.size)
               /\ fallback' = fallback
          ELSE /\ last'.calls = <<Call("primary.owns", FALSE), Call("fallback.dealloc", TRUE)>>
               /\ last'.owner = "fallback"
               /\ fallback' = Region_dealloc(fallback, last'.ptr, last'.size)
               /\ primary' = primary]_vars

\* a fallback block was released while a primary block is still held
C5_Witness ==
    /\ last.op = "dealloc"
    /\ last.owner = "fallback"
    /\ last.calls = <<Call("primary.owns", FALSE), Call("fallback.dealloc", TRUE)>>
    /\ \E h \in held : h.owner = "primary"

\* C6: grow and shrink of a fallback-owned block call only fallback, leave
\* primary as it was, and return a block that primary does not own.
C6_FallbackBlocksStay ==
    [][(/\ last'.op \in {"grow", "shrink"}
        /\ last'.owner = "fallback")
       => /\ last'.calls = <<Call("primary.owns", FALSE),
                             Call(IF last'.op = "grow" THEN "fallback.grow" ELSE "fallback.shrink",
                                  last'.res.ok)>>
          /\ primary' = primary
          /\ last'.res.ok => /\ ~Region_owns(primary', last'.res.ptr, last'.res.size)
                             /\ Region_owns(fallback', last'.res.ptr, last'.res.size)
                             /\ NewBlock \in held'
                             /\ last'.from = "fallback"]_vars

\* a block that migrated to fallback was grown again
C6_Witness ==
    /\ last.op = "grow"
    /\ last.owner = "fallback"
    /\ last.res.ok
    /\ last.newSize > last.size
    /\ primary.used = 0
    /\ steps >= 3

\* C10 as claimed: after alloc and an immediate dealloc of the same block,
\* owns is false for it.
C10_RoundTripDisowns ==
    (last.op = "dealloc" /\ last.roundTrip)
        => ~FallbackAlloc_owns(primary, fallback, last.ptr, last.size)

\* C10 amended: after the round trip owns still answers true for the block,
\* because the inner allocators answer owns by address range, not by
\* liveness; the dealloc went to the inner allocator that served the alloc.
C10_RoundTripStillOwned ==
    (last.op = "dealloc" /\ last.roundTrip)
        => /\ FallbackAlloc_owns(primary, fallback, last.ptr, last.size)
           /\ last.calls = <<Call("primary.owns", last.owner = "primary"),
                             Call(IF last.owner = "primary" THEN "primary.dealloc"
                                  ELSE "fallback.dealloc", TRUE)>>

C10_Witness ==
    /\ last.op = "dealloc"
    /\ last.roundTrip
    /\ last.owner = "fallback"
    /\ \E h \in held : h.owner = "primary"

\* C7: every call on the Proxy ran its before-hook, the inner operation and
\* its after-hook, once each and in that order, so each operation's hooks
\* have run as often as the operation was invoked, failed calls included.
C7_HooksPairedInOrder ==
    /\ \A k \in Kinds : /\ pxCallbacks.before[k] = pxCalls[k]
                        /\ pxCallbacks.after[k] = pxCalls[k]
    /\ pxLast.op \in Kinds =>
          pxLast.events = <<Ev("before", pxLast.op), Ev("inner", pxLast.op), Ev("after", pxLast.op)>>

\* an operation invoked twice, the second call failing
C7_Witness ==
    /\ pxLast.op = "alloc"
    /\ ~pxLast.res.ok
    /\ pxCalls["alloc"] = 2
    /\ pxCallbacks.after["alloc"] = 2
    /\ pxHeld # {}

\* C8: each call on the Proxy returns what the wrapped allocator alone
\* returns for the same calls, leaves the wrapped allocator in the same
\* state, reaches it exactly once, and hands the same result to the after-hook.
C8_ProxyTransparent ==
    /\ pxAlloc = pxRef
    /\ pxLast.op \in Kinds =>
          /\ pxLast.res = pxLast.refRes
          /\ pxCallbacks.seen = pxLast.res
          /\ Cardinality({i \in DOMAIN pxLast.events : pxLast.events[i].what = "inner"}) = 1

\* alloc_all served the rest of a partly used region
C8_Witness ==
    /\ pxLast.op = "alloc_all"
    /\ pxLast.res.ok
    /\ pxLast.res.ptr > 0
    /\ pxLast.res.size > 1
    /\ pxAlloc = pxRef
    /\ pxCallbacks.seen = pxLast.res

\* C9: in every state capacity, capacity_left, is_empty and is_full of the
\* Proxy return the wrapped allocator's values.
C9_QueriesForward ==
    /\ Proxy_capacity(pxAlloc) = Region_capacity(pxAlloc)
    /\ Proxy_capacity_left(pxAlloc) = Region_capacity_left(pxAlloc)
    /\ Proxy_is_empty(pxAlloc) = Region_is_empty(pxAlloc)
    /\ Proxy_is_full(pxAlloc) = Region_is_full(pxAlloc)

\* C11 as stated: an alloc of a size within primary's capacity returns a
\* block owned by primary, whatever primary has handed out before.
C11_FitsCapacityServedByPrimary ==
    (last.op = "alloc" /\ last.size <= Region_capacity(primary))
        => (last.res.ok /\ Region_owns(primary, last.res.ptr, last.res.size))

\* C11: an alloc of a size within what primary has left (primary.alloc
\* succeeds) returns a block of that size owned by primary, and fallback is
\* neither asked nor changed.
C11_FitsRemainingServedByPrimary ==
    [][(last'.op = "alloc" /\ last'.size <= Region_capacity_left(primary))
          => /\ last'.res.ok
             /\ last'.res.size = last'.size
             /\ Region_owns(primary', last'.res.ptr, last'.res.size)
             /\ ~Region_owns(fallback', last'.res.ptr, last'.res.size)
             /\ last'.calls = <<Call("primary.alloc", TRUE)>>
             /\ fallback' = fallback]_vars

\* a second block served by a partly used primary, filling it
C11_Witness ==
    /\ last.op = "alloc"
    /\ last.res.ok
    /\ last.res.ptr > 0
    /\ Region_owns(primary, last.res.ptr, last.res.size)
    /\ Region_is_full(primary)
    /\ Cardinality(held) = 2

\* C12: an alloc that primary refuses and fallback can serve returns a
\* block of the requested size owned by fallback and not by primary, and
\* leaves primary exactly as it was.
C12_OverflowServedByFallback ==
    [][(/\ last'.op = "alloc"
        /\ ~Region_alloc(primary, last'.size, last'.init).res.ok
        /\ Region_alloc(fallback, last'.size, last'.init).res.ok)
          => /\ last'.res.ok
             /\ last'.res.size = last'.size
             /\ Region_owns(fallback', last'.res.ptr, last'.res.size)
             /\ ~Region_owns(primary', last'.res.ptr, last'.res.size)
             /\ primary' = primary
             /\ NewBlock \in held'
             /\ NewBlock.owner = "fallback"]_vars

\* primary holds a live block and has room left, yet too little for the request
C12_Witness ==
    /\ last.op = "alloc"
    /\ last.res.ok
    /\ last.from = "fallback"
    /\ last.size > Region_capacity_left(primary)
    /\ last.size <= Region_capacity(primary)
    /\ ~Region_is_empty(primary)
    /\ ~Region_is_full(primary)
    /\ Region_owns(fallback, last.res.ptr, last.res.size)

\* an InPlace grow served by primary alone: same address, old bytes kept
GrownInPlace ==
    /\ last'.res = Ok(last'.ptr, last'.newSize)
    /\ Region_owns(primary', last'.res.ptr, last'.res.size)
    /\ ReadRegion(primary', last'.ptr, last'.size) = ReadRegion(primary, last'.ptr, last'.size)
    /\ last'.calls = <<Call("primary.owns", TRUE), Call("primary.grow", TRUE)>>
    /\ fallback' = fallback
    /\ held' = (held \ {OldBlock}) \cup {Block(last'.ptr, last'.newSize, "primary")}

\* C13 as stated: an InPlace grow of any primary-owned block by no more
\* than primary has left succeeds in place.
C13_InPlaceGrowWithinRemaining ==
    [][(/\ last'.op = "grow"
        /\ last'.placement = "InPlace"
        /\ OwnedByPrimary
        /\ last'.newSize - last'.size <= Region_capacity_left(primary))
          => GrownInPlace]_vars

\* C13: an InPlace grow of the primary-owned block that primary handed out
\* last, by no more than primary has left, returns Ok with the same address
\* and the new size, the block is still primary-owned, its first old_size
\* bytes are unchanged and fallback is neither called nor changed; this
\* holds at every such grow, up to primary's full capacity.
C13_InPlaceGrowOfLastBlock ==
    [][(/\ last'.op = "grow"
        /\ last'.placement = "InPlace"
        /\ OwnedByPrimary
        /\ Region_is_last_block(primary, last'.ptr, last'.size)
        /\ last'.newSize - last'.size <= Region_capacity_left(primary))
          => GrownInPlace]_vars

\* a written block grown in place to the whole of primary, its tail zeroed
C13_Witness ==
    /\ last.op = "grow"
    /\ last.placement = "InPlace"
    /\ last.init = "Zeroed"
    /\ last.size < last.newSize
    /\ last.res = Ok(last.ptr, last.newSize)
    /\ last.calls = <<Call("primary.owns", TRUE), Call("primary.grow", TRUE)>>
    /\ Region_is_full(primary)
    /\ ReadRegion(primary, last.ptr, last.newSize) = [i \in 1..last.newSize |-> IF i <= last.size THEN 1 ELSE 0]

\* C14: shrink goes, with the caller's arguments, to primary iff primary
\* owns {ptr, old size} and to fallback otherwise; the inner result is the
\* result, the other inner allocator is not touched, and the returned block
\* is owned by the inner allocator that owned the block before the call.
C14_ShrinkDelegated ==
    [][last'.op = "shrink"
          => IF OwnedByPrimary
             THEN LET r == Region_shrink(primary, last'.ptr, last'.size, last'.newSize,
                                         last'.placement) IN
                  /\ last'.res = r.res
                  /\ primary' = r.a
                  /\ fallback' = fallback
                  /\ last'.calls = <<Call("primary.owns", TRUE), Call("primary.shrink", r.res.ok)>>
                  /\ last'.res.ok => /\ Region_owns(primary', last'.res.ptr, last'.res.size)
                                     /\ ~Region_owns(fallback', last'.res.ptr, last'.res.size)
                                     /\ NewBlock.owner = "primary"
                                     /\ NewBlock \in held'
             ELSE LET r == Region_shrink(fallback, last'.ptr, last'.size, last'.newSize,
                                         last'.placement) IN
                  /\ last'.res = r.res
                  /\ fallback' = r.a
                  /\ primary' = primary
                  /\ last'.calls = <<Call("primary.owns", FALSE), Call("fallback.shrink", r.res.ok)>>
                  /\ last'.res.ok => /\ Region_owns(fallback', last'.res.ptr, last'.res.size)
                                     /\ ~Region_owns(primary', last'.res.ptr, last'.res.size)
                                     /\ NewBlock.owner = "fallback"
                                     /\ NewBlock \in held']_vars

\* a fallback-owned block shrunk while primary serves another block
C14_Witness ==
    /\ last.op = "shrink"
    /\ last.res.ok
    /\ last.newSize < last.size
    /\ last.calls = <<Call("primary.owns", FALSE), Call("fallback.shrink", TRUE)>>
    /\ Region_owns(fallback, last.res.ptr, last.res.size)
    /\ \E h \in held : Region_owns(primary, h.ptr, h.size)

\* every address a block could start at, one past fallback's end included
Addresses == 0..(PrimaryCap + FallbackCap)

\* C15: FallbackAlloc.owns is true of a block iff primary or fallback owns
\* it; every block the caller holds, and the block a successful alloc, grow
\* or shrink just returned, is owned by the FallbackAlloc, whichever inner
\* allocator served it.
C15_OwnsEitherInner ==
    /\ \A ptr \in Addresses, size \in Sizes :
          FallbackAlloc_owns(primary, fallback, ptr, size)
              <=> (Region_owns(primary, ptr, size) \/ Region_owns(fallback, ptr, size))
    /\ \A h \in held : FallbackAlloc_owns(primary, fallback, h.ptr, h.size)
    /\ (last.op \in {"alloc", "grow", "shrink"} /\ last.res.ok)
          => FallbackAlloc_owns(primary, fallback, last.res.ptr, last.res.size)

\* a grow moved a block into fallback while primary serves another one
C15_Witness ==
    /\ last.op = "grow"
    /\ last.res.ok
    /\ last.owner = "primary"
    /\ Region_owns(fallback, last.res.ptr, last.res.size)
    /\ FallbackAlloc_owns(primary, fallback, last.res.ptr, last.res.size)
    /\ \E h \in held : Region_owns(primary, h.ptr, h.size)
    /\ ~FallbackAlloc_owns(primary, fallback, PrimaryCap - 1, 2)

\* the positions of the inner call fn in the calls of the step just made
CallsOf(fn) == {i \in DOMAIN last'.calls : last'.calls[i].fn = fn}

\* C16: within one grow call fallback.alloc comes third, after primary.owns
\* answered true and primary.grow failed, and never after a primary.grow
\* that succeeded; primary.dealloc comes last and at most once, right after
\* the copy that follows a successful fallback.alloc, and frees the old
\* layout; a grow that moved a block made exactly the calls primary.owns,
\* primary.grow, fallback.alloc, copy, primary.dealloc.
C16_MigrationOrder ==
    [][last'.op = "grow"
          => /\ \A i \in CallsOf("fallback.alloc") :
                   /\ i = 3
                   /\ last'.calls[1] = Call("primary.owns", TRUE)
                   /\ last'.calls[2] = Call("primary.grow", FALSE)
             /\ Call("primary.grow", TRUE) \in {last'.calls[i] : i \in DOMAIN last'.calls}
                   => CallsOf("fallback.alloc") = {}
             /\ Cardinality(CallsOf("primary.dealloc")) <= 1
             /\ \A i \in CallsOf("primary.dealloc") :
                   /\ i = Len(last'.calls)
                   /\ i = 5
                   /\ last'.calls[i - 1] = Call("copy", TRUE)
                   /\ last'.calls[i - 2] = Call("fallback.alloc", TRUE)
                   /\ primary' = Region_dealloc(primary, last'.ptr, last'.size)
             /\ (Call("fallback.alloc", FALSE) \in {last'.calls[i] : i \in DOMAIN last'.calls})
                   => (Len(last'.calls) = 3 /\ primary' = primary /\ ~last'.res.ok)
             /\ (last'.res.ok /\ OwnedByPrimary /\ Region_owns(fallback', last'.res.ptr, last'.res.size))
                   => (last'.calls = MigrationCalls /\ last'.placement = "MayMove")]_vars

\* a block of primary with another block behind it, written by the caller,
\* moved to fallback, which now holds the written bytes
C16_Witness ==
    /\ last.op = "grow"
    /\ last.calls = MigrationCalls
    /\ last.size >= 2
    /\ Cardinality(held) = 2
    /\ ~Region_is_empty(primary)
    /\ ReadRegion(fallback, last.res.ptr, last.size) = [i \in 1..last.size |-> 1]

\* the blocks the caller holds, as the inner allocators know them
HeldMem == {Mem(h.ptr, h.size) : h \in held}

\* C17: after every call the blocks live in primary together with those
\* live in fallback are exactly the blocks the caller holds, no block is
\* live in both, each live block lies in the memory of the allocator it is
\* live in, no inner allocator was given a block it did not have live (no
\* double free) and a call that returns Err leaves both sets as they were.
C17_NoLeakNoDoubleFree ==
    [][/\ live'.primary \cup live'.fallback = HeldMem'
       /\ live'.primary \cap live'.fallback = {}
       /\ \A b \in live'.primary : Region_owns(primary', b.ptr, b.size)
       /\ \A b \in live'.fallback : Region_owns(fallback', b.ptr, b.size)
       /\ ~live'.misuse
       /\ (last'.op \in {"alloc", "grow", "shrink"} /\ ~last'.res.ok)
             => (live' = live /\ held' = held)]_vars

\* a grow has failed while the caller holds a block in each inner allocator
C17_Witness ==
    /\ last.op = "grow"
    /\ ~last.res.ok
    /\ live.primary # {}
    /\ live.fallback # {}
    /\ live.primary \cup live.fallback = HeldMem

\* the call made nothing but the inner calls cs, failed, and changed nothing
FailedWith(cs) ==
    /\ ~last'.res.ok
    /\ last'.calls = cs
    /\ primary' = primary
    /\ fallback' = fallback
    /\ held' = held

=============================================================================
